---- MODULE Spec2Model ----
(***************************************************************************)
(* Group buying coordination engine (GroupBuyingService), Green_Commerce.   *)
(*                                                                         *)
(* The service methods are async functions: every `await` on a Mongoose    *)
(* call is one atomic step against the store, and the synchronous code     *)
(* between two awaits runs together with the store call that precedes it.  *)
(* Several requests (clients) and the scheduled sweeper interleave at the  *)
(* awaits.                                                                 *)
(*                                                                         *)
(* A Mongoose document loaded from the store is a local copy.  save() of a *)
(* loaded document writes the modified paths only: an assignment to a path *)
(* becomes a $set of that path, Array#push becomes a $push of the pushed   *)
(* elements, a path the code did not touch is not written.  The update is  *)
(* addressed by _id alone.  A read whose result the code uses only for     *)
(* data no operation changes is taken together with the step after it.     *)
(***************************************************************************)
EXTENDS Integers, Sequences, FiniteSets, TLC

\* ------------------------------------------------------------------ bounds
MaxCalls == 3        \* service calls started in one behaviour
MaxCount == 5        \* calculateGroupBuyImpact: participants.length ranges over 1..MaxCount
MaxTime == 2         \* the clock runs over 0..MaxTime (days)
MaxThreshold == 3    \* product.groupBuying.threshold ranges over 2..MaxThreshold
ExpiryDays == 1      \* product.groupBuying.expiryDays of the modelled product

Users == {"A", "B", "C"}
Clients == {"r1", "r2"}
GroupIds == 1..MaxCalls
NoUser == "-"

VARIABLES
    now,        \* the wall clock read by new Date()
    groups,     \* GroupBuy collection: sequence of documents, _id = index
    product,    \* the Product document (groupBuying sub-document)
    logs,       \* User collection: groupBuyingParticipation of every user
    cl,         \* the request handlers: position and local documents
    sw,         \* the sweeper: position, the list it found and where it is in it
    sent,       \* sendGroupBuyingNotification calls made, per group and user
    decided,    \* per group: how many joinGroupBuy calls took the branch of line 828
    okJoins,    \* per group: calls that returned success after adding a participant
    okUsers,    \* <<group, user>> of every call that returned success
    ret,        \* what the call that ended last returned or threw
    known,      \* how many of the users have called the service so far
    calls,      \* service calls started so far
    impact      \* calculateGroupBuyImpact: what it reads and what it returned

vars == <<now, groups, product, logs, cl, sw, sent, decided, okJoins, okUsers, ret, known,
          calls, impact>>

\* Users and request handlers are interchangeable: the model names the users in
\* the order of their first call and starts a call on the first free handler.
UserNo == [u \in Users |-> CASE u = "A" -> 1 [] u = "B" -> 2 [] OTHER -> 3]

MayCall(u) == UserNo[u] <= known + 1

Introduce(u) == IF UserNo[u] > known THEN UserNo[u] ELSE known

FirstFree(c) == cl[c].pc = "idle" /\ (c = "r1" \/ cl["r1"].pc # "idle")

\* ---------------------------------------------------------------- helpers
Range(s) == {s[i] : i \in 1..Len(s)}

IdleClient ==
    [pc |-> "idle", user |-> NoUser, gid |-> 0, parts |-> <<>>, status |-> "none",
     completedAt |-> {}, expiry |-> 0, wrote |-> FALSE]

\* sel is the array expiredGroupBuys, cur the position of the for loop in it
IdleSweeper == [pc |-> "idle", sel |-> <<>>, cur |-> 0]

\* GroupBuy.findOne / find filters
ActiveUnexpired(g) == g.status = "active" /\ g.expiryDate > now

\* variant: the sweeper's filter has the comparison of the dates reversed
SweepSelectsUnexpired(g) == g.status = "active" /\ g.expiryDate > now

\* variant: the sweeper's filter leaves the status out
SweepSelectsAnyStatus(g) == g.expiryDate < now

SweepSelects(g) == g.status = "active" /\ g.expiryDate < now

\* variant: joinGroupBuy does not look at the expiry date
JoinExpiredNever(g) == FALSE

\* joinGroupBuy, line 796: new Date() > groupBuy.expiryDate
JoinExpired(g) == now > g.expiryDate

\* variant: the participant check never matches
IsParticipantNever(parts, u) == FALSE

\* joinGroupBuy, line 803: participants.some(p => p.userId == userId)
IsParticipant(parts, u) == u \in Range(parts)

\* variant: the threshold check is off by one
ThresholdReachedLate(len, threshold, status) == len > threshold /\ status = "active"

\* variant: the threshold check reads the product's current threshold
ThresholdReachedProduct(len, threshold, status) ==
    len >= product.threshold /\ status = "active"

\* joinGroupBuy, line 828
ThresholdReached(len, threshold, status) == len >= threshold /\ status = "active"

\* variant: save() writes the whole local array back
PushParticipantOverwrite(stored, local, u) == local

\* $push of the locally pushed participant onto the stored array
PushParticipant(stored, local, u) == Append(stored, u)

\* the first document matching the findOne filter, 0 when there is none
FindOneActive ==
    IF \E i \in 1..Len(groups) : ActiveUnexpired(groups[i])
    THEN CHOOSE i \in 1..Len(groups) :
            /\ ActiveUnexpired(groups[i])
            /\ \A j \in 1..(i - 1) : ~ActiveUnexpired(groups[j])
    ELSE 0

InitService ==
    /\ now = 0
    /\ groups = <<>>
    /\ product \in [enabled : {TRUE}, threshold : 2..MaxThreshold,
                   discountPercent : {10}, carbonSavingPercent : {15},
                   expiryDays : {ExpiryDays}, currentParticipants : {0}]
    /\ logs = [u \in Users |-> <<>>]
    /\ cl = [c \in Clients |-> IdleClient]
    /\ sw = IdleSweeper
    /\ sent = [g \in GroupIds |-> [u \in Users |-> 0]]
    /\ decided = [g \in GroupIds |-> 0]
    /\ okJoins = [g \in GroupIds |-> 0]
    /\ okUsers = {}
    /\ ret = "none"
    /\ known = 0
    /\ calls = 0

\* no call of calculateGroupBuyImpact is made
NoImpact == [f |-> 0, n |-> 1, p |-> 0, result |-> <<>>]

Init == InitService /\ impact = NoImpact

\* ------------------------------------------------------- carbon estimates
\* Amounts of CO2 and of material are in hundredths of a kilogram, so that the
\* constants 2.5, 0.5 and 0.2 and the division by 100 stay in the integers.
\* A footprint of 0 stands for every value `||` takes as missing (null, 0).

\* sustainability.carbonFootprint of the modelled product: the schema default
carbonFootprint == 0

\* variant: the stored footprint is used as it is
CarbonFootprintAsIs(f) == f

\* lines 759, 847 and 953: product.sustainability.carbonFootprint || 10
CarbonFootprintOrDefault(f) == IF f = 0 THEN 10 ELSE f

\* lines 760 and 848: (productCarbonFootprint * carbonSavingPercent) / 100, the
\* percentage being the one of the product document the call holds
PotentialSaving(f, p) == CarbonFootprintOrDefault(f) * p

\* time passes.  Before the first expiry date is computed nothing depends on the
\* clock, so it starts running with the first opportunity.
ClockMatters == groups # <<>> \/ \E c \in Clients : cl[c].pc \in {"cSaveProduct", "cSaveGroup"}

Tick ==
    /\ now < MaxTime
    /\ ClockMatters
    /\ now' = now + 1
    /\ UNCHANGED <<groups, product, logs, cl, sw, sent, decided, okJoins, okUsers, ret, known, calls, impact>>

\* With non-overlapping calls the clock runs on for one more expiry period, so
\* that a second opportunity of the product, created once the first is past its
\* expiry date, gets past its own.
TickSeq ==
    /\ now < MaxTime + ExpiryDays
    /\ ClockMatters
    /\ now' = now + 1
    /\ UNCHANGED <<groups, product, logs, cl, sw, sent, decided, okJoins, okUsers, ret, known, calls, impact>>

\* Time keeps advancing: the clock runs on as long as an active opportunity has
\* its expiry date ahead.
TickLive ==
    /\ ClockMatters
    /\ \/ now < MaxTime
       \/ \E g \in 1..Len(groups) : groups[g].status = "active" /\ groups[g].expiryDate >= now
    /\ now' = now + 1
    /\ UNCHANGED <<groups, product, logs, cl, sw, sent, decided, okJoins, okUsers, ret, known, calls, impact>>

\* ------------------------------------------------------- createGroupBuy
\* variant: the checks of lines 712-718 are missing
CreatePreconditionLax(exists) == "ok"

\* lines 710-718: Product.findById and the two checks on its result:
\* Error('Product not found'), Error('Group buying is not enabled for this product')
CreatePrecondition(exists) ==
    IF ~exists THEN "NotFound(product)"
    ELSE IF ~product.enabled THEN "FeatureDisabled"
    ELSE "ok"

\* lines 707-750: the call starts; Product.findById (the modelled product exists
\* and has group buying enabled) and GroupBuy.findOne.  An existing group
\* delegates to joinGroupBuy, otherwise the new document is built.
CreateFind(c, u) ==
    /\ FirstFree(c)
    /\ MayCall(u)
    /\ calls < MaxCalls
    /\ CreatePrecondition(TRUE) = "ok"
    /\ calls' = calls + 1
    /\ known' = Introduce(u)
    /\ cl' = [cl EXCEPT ![c] =
                IF FindOneActive # 0
                THEN [IdleClient EXCEPT !.pc = "jFind", !.user = u, !.gid = FindOneActive]
                ELSE [IdleClient EXCEPT !.pc = "cSaveProduct", !.user = u,
                                        !.expiry = now + product.expiryDays]]
    /\ UNCHANGED <<now, groups, product, logs, sw, sent, decided, okJoins, okUsers, ret, impact>>

\* lines 712-718: the call throws before anything is written; `exists` tells
\* whether productId is the _id of a product
CreateRejected(c, u, exists) ==
    /\ FirstFree(c)
    /\ MayCall(u)
    /\ calls < MaxCalls
    /\ CreatePrecondition(exists) # "ok"
    /\ calls' = calls + 1
    /\ known' = Introduce(u)
    /\ ret' = CreatePrecondition(exists)
    /\ UNCHANGED <<now, groups, product, logs, cl, sw, sent, decided, okJoins, okUsers, impact>>

\* lines 749-751: currentParticipants = 1 and await product.save()
CreateSaveProduct(c) ==
    /\ cl[c].pc = "cSaveProduct"
    /\ product' = [product EXCEPT !.currentParticipants = 1]
    /\ cl' = [cl EXCEPT ![c].pc = "cSaveGroup", ![c].wrote = TRUE]
    /\ UNCHANGED <<now, groups, logs, sw, sent, decided, okJoins, okUsers, ret, known, calls, impact>>

\* variant: the new document keeps the schema defaults of the two percentages
NewGroupBuyDefaults(u, expiry) ==
    [initiatorId |-> u, threshold |-> product.threshold, discountPercent |-> 0,
     carbonSavingPercent |-> 15, expiryDate |-> expiry,
     participants |-> <<u>>, status |-> "active", completedAt |-> {}]

\* lines 735-747, 754: await newGroupBuy.save(), the insert of the new document
NewGroupBuy(u, expiry) ==
    [initiatorId |-> u, threshold |-> product.threshold,
     discountPercent |-> product.discountPercent,
     carbonSavingPercent |-> product.carbonSavingPercent, expiryDate |-> expiry,
     participants |-> <<u>>, status |-> "active", completedAt |-> {}]

\* GroupBuySchema.threshold: min 2, validated by save()
ValidGroupBuy(doc) == doc.threshold >= 2

CreateSaveGroup(c) ==
    /\ cl[c].pc = "cSaveGroup"
    /\ ValidGroupBuy(NewGroupBuy(cl[c].user, cl[c].expiry))
    /\ groups' = Append(groups, NewGroupBuy(cl[c].user, cl[c].expiry))
    /\ cl' = [cl EXCEPT ![c].pc = "cSaveUser", ![c].gid = Len(groups) + 1]
    /\ UNCHANGED <<now, product, logs, sw, sent, decided, okJoins, okUsers, ret, known, calls, impact>>

\* line 754: save() rejects the document, the ValidationError leaves the call
CreateSaveGroupRejected(c) ==
    /\ cl[c].pc = "cSaveGroup"
    /\ ~ValidGroupBuy(NewGroupBuy(cl[c].user, cl[c].expiry))
    /\ cl' = [cl EXCEPT ![c] = IdleClient]
    /\ ret' = "ValidationError"
    /\ UNCHANGED <<now, groups, product, logs, sw, sent, decided, okJoins, okUsers, known, calls, impact>>

\* lines 756-774: User.findById, push of the participation record, user.save()
CreateSaveUser(c) ==
    /\ cl[c].pc = "cSaveUser"
    /\ logs' = [logs EXCEPT ![cl[c].user] =
                    Append(@, [groupId |-> cl[c].gid, status |-> "active",
                               potentialCarbonSaving |->
                                   PotentialSaving(carbonFootprint, product.carbonSavingPercent)])]
    /\ okJoins' = [okJoins EXCEPT ![cl[c].gid] = @ + 1]
    /\ okUsers' = okUsers \cup {<<cl[c].gid, cl[c].user>>}
    /\ cl' = [cl EXCEPT ![c] = IdleClient]
    /\ ret' = "created"
    /\ UNCHANGED <<now, groups, product, sw, sent, decided, known, calls, impact>>

\* lines 757-758 and 774: User.findById returns null, the if is skipped and the
\* call returns the saved opportunity
CreateSaveUserSkipped(c) ==
    /\ cl[c].pc = "cSaveUser"
    /\ okJoins' = [okJoins EXCEPT ![cl[c].gid] = @ + 1]
    /\ okUsers' = okUsers \cup {<<cl[c].gid, cl[c].user>>}
    /\ cl' = [cl EXCEPT ![c] = IdleClient]
    /\ ret' = "created"
    /\ UNCHANGED <<now, groups, product, logs, sw, sent, decided, known, calls, impact>>

\* --------------------------------------------------------- joinGroupBuy
\* line 793: Error(`Cannot join a ${groupBuy.status} group buy`)
InvalidState(status) ==
    CASE status = "completed" -> "InvalidState(completed)"
      [] status = "expired" -> "InvalidState(expired)"
      [] OTHER -> "InvalidState(cancelled)"

\* variant: the status check of lines 792-794 is missing
JoinOutcomeAnyStatus(g, u) ==
    LET doc == groups[g] IN
    IF JoinExpired(doc) THEN "Expired"
    ELSE IF IsParticipant(doc.participants, u) THEN "already"
    ELSE "push"

\* lines 786-812: GroupBuy.findById and the checks made on the loaded document
JoinOutcome(g, u) ==
    LET doc == groups[g] IN
    IF doc.status # "active" THEN InvalidState(doc.status)
    ELSE IF JoinExpired(doc) THEN "Expired"
    ELSE IF IsParticipant(doc.participants, u) THEN "already"
    ELSE "push"

\* lines 793, 797, 808, 815: the handler after the load: the call has thrown or
\* returned, or it goes on with the local document changed
JoinLoaded(c, g, u) ==
    CASE JoinOutcome(g, u) = "Expired" ->
            [cl[c] EXCEPT !.pc = "jSaveExpired", !.user = u, !.gid = g, !.status = "expired"]
      [] JoinOutcome(g, u) = "push" ->
            [cl[c] EXCEPT !.pc = "jSaveProduct", !.user = u, !.gid = g, !.status = "active",
                          !.parts = Append(groups[g].participants, u)]
      [] OTHER -> IdleClient

JoinReturned(g, u) ==
    IF JoinOutcome(g, u) \in {"Expired", "push"} THEN ret ELSE JoinOutcome(g, u)

JoinSucceeded(g, u) ==
    IF JoinOutcome(g, u) = "already" THEN okUsers \cup {<<g, u>>} ELSE okUsers

\* a direct call of joinGroupBuy(groupId, userId)
JoinFind(c, g, u) ==
    /\ FirstFree(c)
    /\ MayCall(u)
    /\ calls < MaxCalls
    /\ g \in 1..Len(groups)
    /\ calls' = calls + 1
    /\ known' = Introduce(u)
    /\ cl' = [cl EXCEPT ![c] = JoinLoaded(c, g, u)]
    /\ ret' = JoinReturned(g, u)
    /\ okUsers' = JoinSucceeded(g, u)
    /\ UNCHANGED <<now, groups, product, logs, sw, sent, decided, okJoins, impact>>

\* lines 786-790: findById returns null for an id of no document,
\* Error('Group buy not found')
JoinNotFound(c, g, u) ==
    /\ FirstFree(c)
    /\ MayCall(u)
    /\ calls < MaxCalls
    /\ g \in GroupIds \ (1..Len(groups))
    /\ calls' = calls + 1
    /\ known' = Introduce(u)
    /\ ret' = "NotFound(opportunity)"
    /\ UNCHANGED <<now, groups, product, logs, cl, sw, sent, decided, okJoins, okUsers, impact>>

\* joinGroupBuy entered from createGroupBuy, line 728
JoinFindDelegated(c) ==
    /\ cl[c].pc = "jFind"
    /\ cl' = [cl EXCEPT ![c] = JoinLoaded(c, cl[c].gid, cl[c].user)]
    /\ ret' = JoinReturned(cl[c].gid, cl[c].user)
    /\ okUsers' = JoinSucceeded(cl[c].gid, cl[c].user)
    /\ UNCHANGED <<now, groups, product, logs, sw, sent, decided, okJoins, known, calls, impact>>

\* lines 797-799: the expired status is saved and the call throws
JoinSaveExpired(c) ==
    /\ cl[c].pc = "jSaveExpired"
    /\ groups' = [groups EXCEPT ![cl[c].gid].status = "expired"]
    /\ cl' = [cl EXCEPT ![c] = IdleClient]
    /\ ret' = "Expired"
    /\ UNCHANGED <<now, product, logs, sw, sent, decided, okJoins, okUsers, known, calls, impact>>

\* lines 820-841: Product.findById, currentParticipants = participants.length and
\* product.save(), then the threshold check on the local document;
\* the notifications go out here, before the group document is saved
Notify(parts) ==
    [u \in Users |-> Cardinality({i \in 1..Len(parts) : parts[i] = u})]

JoinSaveProduct(c) ==
    LET me == cl[c]
        reached == ThresholdReached(Len(me.parts), groups[me.gid].threshold, me.status)
    IN
    /\ me.pc = "jSaveProduct"
    /\ product' = [product EXCEPT !.currentParticipants = Len(me.parts)]
    /\ cl' = [cl EXCEPT ![c] =
                IF reached
                THEN [@ EXCEPT !.pc = "jSaveGroup", !.wrote = TRUE,
                               !.status = "completed", !.completedAt = {now}]
                ELSE [@ EXCEPT !.pc = "jSaveGroup", !.wrote = TRUE]]
    /\ sent' = IF reached
               THEN [sent EXCEPT ![me.gid] = [u \in Users |-> @[u] + Notify(me.parts)[u]]]
               ELSE sent
    /\ decided' = IF reached THEN [decided EXCEPT ![me.gid] = @ + 1] ELSE decided
    /\ UNCHANGED <<now, groups, logs, sw, okJoins, okUsers, ret, known, calls, impact>>

\* lines 821-841: Product.findById returns null, the counter is left alone; the
\* threshold check of lines 828-841 is made all the same
JoinSaveProductSkipped(c) ==
    LET me == cl[c]
        reached == ThresholdReached(Len(me.parts), groups[me.gid].threshold, me.status)
    IN
    /\ me.pc = "jSaveProduct"
    /\ cl' = [cl EXCEPT ![c] =
                IF reached
                THEN [@ EXCEPT !.pc = "jSaveGroup",
                               !.status = "completed", !.completedAt = {now}]
                ELSE [@ EXCEPT !.pc = "jSaveGroup"]]
    /\ sent' = IF reached
               THEN [sent EXCEPT ![me.gid] = [u \in Users |-> @[u] + Notify(me.parts)[u]]]
               ELSE sent
    /\ decided' = IF reached THEN [decided EXCEPT ![me.gid] = @ + 1] ELSE decided
    /\ UNCHANGED <<now, groups, product, logs, sw, okJoins, okUsers, ret, known, calls, impact>>

\* line 843: groupBuy.save(): $push of the new participant, $set of status and
\* completedAt when the threshold branch assigned them
SaveJoined(doc, me) ==
    [doc EXCEPT !.participants = PushParticipant(doc.participants, me.parts, me.user),
                !.status = IF me.status = "completed" THEN "completed" ELSE @,
                !.completedAt = IF me.status = "completed" THEN me.completedAt ELSE @]

JoinSaveGroup(c) ==
    /\ cl[c].pc = "jSaveGroup"
    /\ groups' = [groups EXCEPT ![cl[c].gid] = SaveJoined(@, cl[c])]
    /\ cl' = [cl EXCEPT ![c].pc = "jSaveUser"]
    /\ UNCHANGED <<now, product, logs, sw, sent, decided, okJoins, okUsers, ret, known, calls, impact>>

\* lines 845-863: User.findById, push of the participation record, user.save();
\* line 846 wants the product of line 821 found, which is when the call wrote it
JoinSaveUser(c) ==
    /\ cl[c].pc = "jSaveUser"
    /\ cl[c].wrote
    /\ logs' = [logs EXCEPT ![cl[c].user] =
                    Append(@, [groupId |-> cl[c].gid, status |-> cl[c].status,
                               potentialCarbonSaving |->
                                   PotentialSaving(carbonFootprint, product.carbonSavingPercent)])]
    /\ okJoins' = [okJoins EXCEPT ![cl[c].gid] = @ + 1]
    /\ okUsers' = okUsers \cup {<<cl[c].gid, cl[c].user>>}
    /\ cl' = [cl EXCEPT ![c] = IdleClient]
    /\ ret' = "joined"
    /\ UNCHANGED <<now, groups, product, sw, sent, decided, known, calls, impact>>

\* lines 845-846 and 863: the user or the product was not found, the if is
\* skipped and the call returns its success message
JoinSaveUserSkipped(c) ==
    /\ cl[c].pc = "jSaveUser"
    /\ okJoins' = [okJoins EXCEPT ![cl[c].gid] = @ + 1]
    /\ okUsers' = okUsers \cup {<<cl[c].gid, cl[c].user>>}
    /\ cl' = [cl EXCEPT ![c] = IdleClient]
    /\ ret' = "joined"
    /\ UNCHANGED <<now, groups, product, logs, sw, sent, decided, known, calls, impact>>

\* ------------------------------------------- checkAndUpdateExpiredGroupBuys
RECURSIVE Selected(_)
Selected(i) ==
    IF i > Len(groups) THEN <<>>
    ELSE IF SweepSelects(groups[i]) THEN <<i>> \o Selected(i + 1)
    ELSE Selected(i + 1)

\* lines 906-909: GroupBuy.find of the active documents past their expiry; a run
\* that finds none ends at once (line 928)
SweepFind ==
    /\ sw.pc = "idle"
    /\ sw' = IF Selected(1) = <<>>
             THEN IdleSweeper
             ELSE [pc |-> "sSaveGroup", sel |-> Selected(1), cur |-> 1]
    /\ UNCHANGED <<now, groups, product, logs, cl, sent, decided, okJoins, okUsers, ret, known, calls, impact>>

\* line 911: the document the for loop is at
SweepCurrent == sw.sel[sw.cur]

\* line 928: return expiredGroupBuys.length
SweepReturns == Len(sw.sel)

\* lines 912-913: status = 'expired' and save()
SweepSaveGroup ==
    /\ sw.pc = "sSaveGroup"
    /\ groups' = [groups EXCEPT ![SweepCurrent].status = "expired"]
    /\ sw' = [sw EXCEPT !.pc = "sUpdateUsers"]
    /\ UNCHANGED <<now, product, logs, cl, sent, decided, okJoins, okUsers, ret, known, calls, impact>>

\* variant: the updateMany matches no user
ExpireFirstNone(log, g) == log

\* lines 916-919: updateMany with the positional operator: in every user that has
\* a record of the group, the first such record gets status expired
ExpireFirst(log, g) ==
    IF \E i \in 1..Len(log) : log[i].groupId = g
    THEN LET k == CHOOSE i \in 1..Len(log) :
                    /\ log[i].groupId = g
                    /\ \A j \in 1..(i - 1) : log[j].groupId # g
         IN [log EXCEPT ![k].status = "expired"]
    ELSE log

SweepUpdateUsers ==
    /\ sw.pc = "sUpdateUsers"
    /\ logs' = [u \in Users |-> ExpireFirst(logs[u], SweepCurrent)]
    /\ sw' = [sw EXCEPT !.pc = "sUpdateProduct"]
    /\ UNCHANGED <<now, groups, product, cl, sent, decided, okJoins, okUsers, ret, known, calls, impact>>

\* lines 922-926: the product counter is reset, then the loop goes on
SweepUpdateProduct ==
    /\ sw.pc = "sUpdateProduct"
    /\ product' = [product EXCEPT !.currentParticipants = 0]
    /\ sw' = IF sw.cur = Len(sw.sel)
             THEN IdleSweeper
             ELSE [sw EXCEPT !.pc = "sSaveGroup", !.cur = @ + 1]
    /\ UNCHANGED <<now, groups, logs, cl, sent, decided, okJoins, okUsers, ret, known, calls, impact>>

\* lines 929-932: an awaited store operation of the loop rejects; the catch logs
\* and rethrows, and the run ends where it was
SweepFails ==
    /\ sw.pc \in {"sSaveGroup", "sUpdateUsers", "sUpdateProduct"}
    /\ sw' = IdleSweeper
    /\ UNCHANGED <<now, groups, product, logs, cl, sent, decided, okJoins, okUsers, ret, known, calls, impact>>

\* ------------------------------------------------- calculateGroupBuyImpact
\* Amounts are in hundredths of a kilogram, as for the participation records.

\* lines 952-979; f, n, p: the product's footprint in kg, participants.length
\* and groupBuy.carbonSavingPercent
Estimate(f, n, p) ==
    LET productCarbonFootprint == CarbonFootprintOrDefault(f)
        individualShippingEmissions == n * 250
        consolidatedShippingEmissions == 250 + ((n - 1) * 50)
        shippingEmissionsSaved == individualShippingEmissions - consolidatedShippingEmissions
        packagingSaved == n * 20
        productCarbonSavings == productCarbonFootprint * n * p
    IN [participantsCount |-> n,
        shippingEmissionsSaved |-> shippingEmissionsSaved,
        packagingSaved |-> packagingSaved,
        productCarbonSavings |-> productCarbonSavings,
        totalCarbonSaved |-> shippingEmissionsSaved + productCarbonSavings,
        totalMaterialsSaved |-> packagingSaved]

\* the footprints and saving percentages the calls are made with
Footprints == {0, 5, 10, 20}

Percents == {0, 15, 30}

\* lines 940-950 have found the opportunity and its product: the call reads
\* footprint f, n participants and percentage p
InitImpact ==
    /\ InitService
    /\ impact \in [f : Footprints, n : 1..MaxCount, p : Percents, result : {<<>>}]

\* lines 952-979: the call computes and returns
CalculateImpact ==
    /\ impact.result = <<>>
    /\ impact' = [impact EXCEPT !.result = <<Estimate(impact.f, impact.n, impact.p)>>]
    /\ UNCHANGED <<now, groups, product, logs, cl, sw, sent, decided, okJoins, okUsers, ret, known, calls>>

\* a second call with the same opportunity and product
CalculateImpactAgain ==
    /\ impact.result # <<>>
    /\ impact' = [impact EXCEPT !.result = Append(@, Estimate(impact.f, impact.n, impact.p))]
    /\ Len(impact.result) = 1
    /\ UNCHANGED <<now, groups, product, logs, cl, sw, sent, decided, okJoins, okUsers, ret, known, calls>>

NextImpact == CalculateImpact \/ CalculateImpactAgain

SpecImpact == InitImpact /\ [][NextImpact]_vars

\* ------------------------------------------------------------- environment
\* The group buying settings of the product are plain fields of the Product
\* document: the catalogue may write them at any time.
Policy(enabled, t) ==
    [enabled |-> enabled, threshold |-> t, discountPercent |-> 10 * t,
     carbonSavingPercent |-> 15 * t, expiryDays |-> ExpiryDays]

\* the settings tried: threshold t comes with a discount of 10 t percent and a
\* carbon saving of 15 t percent; threshold 1 is one the GroupBuy schema rejects
Policies == {Policy(e, t) : e \in BOOLEAN, t \in 1..MaxThreshold}

PolicyOf(p) ==
    [enabled |-> p.enabled, threshold |-> p.threshold,
     discountPercent |-> p.discountPercent,
     carbonSavingPercent |-> p.carbonSavingPercent, expiryDays |-> p.expiryDays]

\* a change of the settings after the last call of a behaviour is read by nothing
SetPolicy(p) ==
    /\ p # PolicyOf(product)
    /\ calls < MaxCalls
    /\ product' = p @@ [currentParticipants |-> product.currentParticipants]
    /\ UNCHANGED <<now, groups, logs, cl, sw, sent, decided, okJoins, okUsers, ret, known, calls, impact>>

\* ------------------------------------------------------------ specification
Next ==
    \/ Tick
    \/ \E c \in Clients, u \in Users : CreateFind(c, u)
    \/ \E c \in Clients : CreateSaveProduct(c)
    \/ \E c \in Clients : CreateSaveGroup(c)
    \/ \E c \in Clients : CreateSaveUser(c)
    \/ \E c \in Clients, g \in GroupIds, u \in Users : JoinFind(c, g, u)
    \/ \E c \in Clients : JoinFindDelegated(c)
    \/ \E c \in Clients : JoinSaveExpired(c)
    \/ \E c \in Clients : JoinSaveProduct(c)
    \/ \E c \in Clients : JoinSaveGroup(c)
    \/ \E c \in Clients : JoinSaveUser(c)
    \/ SweepFind
    \/ SweepSaveGroup
    \/ SweepUpdateUsers
    \/ SweepUpdateProduct

Spec == Init /\ [][Next]_vars

\* Non-overlapping calls: an operation starts only when no other is under way.
Quiet == (\A c \in Clients : cl[c].pc = "idle") /\ sw.pc = "idle"

SeqCalls ==
    \/ Quiet /\ \E c \in Clients, u \in Users : CreateFind(c, u)
    \/ \E c \in Clients : CreateSaveProduct(c)
    \/ \E c \in Clients : CreateSaveGroup(c)
    \/ \E c \in Clients : CreateSaveUser(c)
    \/ Quiet /\ \E c \in Clients, g \in GroupIds, u \in Users : JoinFind(c, g, u)
    \/ \E c \in Clients : JoinFindDelegated(c)
    \/ \E c \in Clients : JoinSaveExpired(c)
    \/ \E c \in Clients : JoinSaveProduct(c)
    \/ \E c \in Clients : JoinSaveGroup(c)
    \/ \E c \in Clients : JoinSaveUser(c)
    \/ Quiet /\ SweepFind
    \/ SweepSaveGroup
    \/ SweepUpdateUsers
    \/ SweepUpdateProduct

NextSeq == TickSeq \/ SeqCalls

SpecSeq == Init /\ [][NextSeq]_vars

\* Non-overlapping calls in an environment where the product's settings change
\* between calls and ids of no document are passed in.
NextEnv ==
    \/ Tick
    \/ SeqCalls
    \/ Quiet /\ \E p \in Policies : SetPolicy(p)
    \/ Quiet /\ \E c \in Clients, u \in Users, exists \in BOOLEAN : CreateRejected(c, u, exists)
    \/ Quiet /\ \E c \in Clients, g \in GroupIds, u \in Users : JoinNotFound(c, g, u)
    \/ \E c \in Clients : CreateSaveGroupRejected(c)

SpecEnv == Init /\ [][NextEnv]_vars

\* Non-overlapping calls in an environment where a store operation of the sweeper
\* may reject and the user or the product of a call may have been deleted.
NextFault ==
    \/ TickSeq
    \/ SeqCalls
    \/ SweepFails
    \/ \E c \in Clients : CreateSaveUserSkipped(c)
    \/ \E c \in Clients : JoinSaveProductSkipped(c)
    \/ \E c \in Clients : JoinSaveUserSkipped(c)

SpecFault == Init /\ [][NextFault]_vars

\* The sweeper as a scheduled job next to the calls of the clients: its steps
\* and the clock interleave freely with a client's call, the calls of the clients
\* come one after the other.  Time advances and the sweeper is invoked again and
\* again: a run that has something to do starts, and a run under way takes its
\* next step.  Nothing makes a client's call go on.
NoCall == \A c \in Clients : cl[c].pc = "idle"

NextLive ==
    \/ TickLive
    \/ NoCall /\ \E c \in Clients, u \in Users : CreateFind(c, u)
    \/ \E c \in Clients : CreateSaveProduct(c)
    \/ \E c \in Clients : CreateSaveGroup(c)
    \/ \E c \in Clients : CreateSaveUser(c)
    \/ NoCall /\ \E c \in Clients, g \in GroupIds, u \in Users : JoinFind(c, g, u)
    \/ \E c \in Clients : JoinFindDelegated(c)
    \/ \E c \in Clients : JoinSaveExpired(c)
    \/ \E c \in Clients : JoinSaveProduct(c)
    \/ \E c \in Clients : JoinSaveGroup(c)
    \/ \E c \in Clients : JoinSaveUser(c)
    \/ SweepFind
    \/ SweepSaveGroup
    \/ SweepUpdateUsers
    \/ SweepUpdateProduct

SweepStep == SweepFind \/ SweepSaveGroup \/ SweepUpdateUsers \/ SweepUpdateProduct

SpecLive ==
    /\ Init
    /\ [][NextLive]_vars
    /\ WF_vars(TickLive)
    /\ WF_vars(SweepStep)

\* ------------------------------------------------------------------ claims
Ids == 1..Len(groups)

NoDuplicates(parts) == \A i, j \in 1..Len(parts) : parts[i] = parts[j] => i = j

\* C1: for every opportunity at most one joinGroupBuy call decides, from its own
\* read of the participant list, to set status = completed and completedAt.
C1_SingleCompletion == \A g \in GroupIds : decided[g] <= 1

\* C2: no lost participants.  Every user whose call returned success is in the
\* persisted participants list, and once all calls have finished the list is as
\* long as the number of successful joins (the creating call included).
C2_NoLostParticipants ==
    \A g \in Ids :
        /\ \A u \in Users : <<g, u>> \in okUsers => u \in Range(groups[g].participants)
        /\ okJoins[g] <= Len(groups[g].participants)
        /\ (\A c \in Clients : cl[c].pc = "idle") => Len(groups[g].participants) = okJoins[g]

\* C2 witness: two joins by distinct users raced on one opportunity (both took the
\* threshold branch), all calls have finished and all three users are recorded.
C2_Witness ==
    /\ \A c \in Clients : cl[c].pc = "idle"
    /\ \E g \in Ids :
        /\ decided[g] = 2
        /\ okJoins[g] = 3
        /\ Range(groups[g].participants) = Users

\* C3: notification exactly once.  No user is notified twice for one opportunity,
\* only participants of a completing opportunity are notified, and once the
\* opportunity is persisted as completed every participant has exactly one event.
C3_NotifyOnce ==
    \A g \in Ids : \A u \in Users :
        /\ sent[g][u] <= 1
        /\ (groups[g].status = "completed" /\ u \in Range(groups[g].participants))
              => sent[g][u] = 1

\* C4: with no operation mid-execution the product counter equals the participants
\* length of the product's active opportunity, and 0 when none is active.
C4_CounterInvariant ==
    Quiet =>
        IF \E g \in Ids : groups[g].status = "active"
        THEN \E g \in Ids : /\ groups[g].status = "active"
                            /\ product.currentParticipants = Len(groups[g].participants)
        ELSE product.currentParticipants = 0

\* C5: at most one opportunity of the product is active and unexpired.
C5_OneActivePerProduct ==
    Cardinality({g \in Ids : ActiveUnexpired(groups[g])}) <= 1

\* C6: status is monotonic: an opportunity starts active and its status only
\* ever changes away from active.
C6_StatusMonotonic ==
    [][\A g \in 1..Len(groups') :
          IF g \in Ids
          THEN groups'[g].status # groups[g].status => groups[g].status = "active"
          ELSE groups'[g].status = "active"]_vars

\* C7: threshold exactness for non-overlapping calls: an opportunity is completed
\* exactly when its participants have reached the threshold; active implies
\* length < threshold and completed implies length >= threshold.
C7_ThresholdExact ==
    \A g \in Ids :
        LET n == Len(groups[g].participants) IN
        /\ groups[g].status = "active" => n < groups[g].threshold
        /\ groups[g].status = "completed" => n >= groups[g].threshold
        /\ n >= groups[g].threshold => groups[g].status = "completed"

\* C7 witness: an opportunity with threshold 3 completed by its third participant.
C7_Witness ==
    \E g \in Ids :
        /\ groups[g].threshold = 3
        /\ groups[g].status = "completed"
        /\ Len(groups[g].participants) = 3

\* C8: completedAt is set exactly once: it is written only by the update that
\* moves status to completed, and once set it is never overwritten.
C8_CompletedAtOnce ==
    [][\A g \in Ids :
          /\ groups[g].completedAt # {} => groups'[g].completedAt = groups[g].completedAt
          /\ groups'[g].completedAt # groups[g].completedAt
                => (groups'[g].status = "completed" /\ groups[g].status # "completed")]_vars

\* client c takes the step that loads an opportunity in joinGroupBuy
LoadStep(c) ==
    \/ cl[c].pc = "jFind" /\ cl'[c] # cl[c]
    \/ FirstFree(c) /\ calls' = calls + 1

\* that step loads opportunity g for user u, who is in its persisted participants
\* while its status is one of `states` (and, if active, it is not past its expiry)
Rejoin(c, g, u, states) ==
    /\ g \in Ids
    /\ groups[g].status \in states
    /\ groups[g].status = "active" => ~JoinExpired(groups[g])
    /\ u \in Range(groups[g].participants)
    /\ \/ cl[c].pc = "jFind" /\ cl[c].gid = g /\ cl[c].user = u
       \/ cl[c].pc = "idle" /\ JoinFind(c, g, u)

RejoinIsNoOp(c) ==
    /\ cl'[c].pc = "idle"
    /\ ret' = "already"
    /\ ~cl[c].wrote
    /\ UNCHANGED <<groups, product, logs, sent, decided, okJoins>>

\* C9 as claimed: a join by a user already in participants returns success and
\* changes nothing, for active and for completed opportunities.
C9_IdempotentRejoin ==
    [][\A c \in Clients : LoadStep(c) =>
          \A g \in GroupIds, u \in Users :
              Rejoin(c, g, u, {"active", "completed"}) => RejoinIsNoOp(c)]_vars

\* C9 as amended: a join by a user already in participants of an active, unexpired
\* opportunity returns success and changes nothing; on a completed opportunity
\* the call fails with InvalidState, also changing nothing.
C9_IdempotentRejoinActive ==
    [][\A c \in Clients : LoadStep(c) =>
          \A g \in GroupIds, u \in Users :
              /\ Rejoin(c, g, u, {"active"}) => RejoinIsNoOp(c)
              /\ Rejoin(c, g, u, {"completed"}) =>
                    /\ cl'[c].pc = "idle"
                    /\ ret' = InvalidState("completed")
                    /\ UNCHANGED <<groups, product, logs, sent, decided, okJoins>>]_vars

\* C9 witness: a participant's second join on an active opportunity has returned.
C9_Witness ==
    ret = "already" /\ \E g \in Ids : groups[g].status = "active"

\* C10: no participants list contains the same userId twice.
C10_UniqueParticipants == \A g \in Ids : NoDuplicates(groups[g].participants)

\* the step of client c loads opportunity g for user u in joinGroupBuy
JoinLoads(c, g, u) ==
    /\ g \in Ids
    /\ \/ cl[c].pc = "jFind" /\ cl[c].gid = g /\ cl[c].user = u
       \/ cl[c].pc = "idle" /\ JoinFind(c, g, u)

\* C11: a join that loads an opportunity whose status is not active throws
\* InvalidState naming that status; the opportunity, the product counter and every
\* participation log stay as they are and no notification is sent.
C11_InvalidStateNoEffect ==
    [][\A c \in Clients : LoadStep(c) =>
          \A g \in GroupIds, u \in Users :
              (JoinLoads(c, g, u) /\ groups[g].status # "active") =>
                  /\ cl'[c] = IdleClient
                  /\ groups[g].status = "completed" => ret' = "InvalidState(completed)"
                  /\ groups[g].status = "expired" => ret' = "InvalidState(expired)"
                  /\ UNCHANGED <<groups, product, logs, sent, decided, okJoins, okUsers>>]_vars

\* C11 witness: a user outside a completed opportunity tried to join it.
C11_Witness ==
    /\ ret = "InvalidState(completed)"
    /\ \E g \in Ids :
        /\ groups[g].status = "completed"
        /\ \E u \in Users : UserNo[u] <= known /\ u \notin Range(groups[g].participants)

\* C12: expiry determinism.  A join that loads an active opportunity with
\* expiryDate < now goes on to save status = expired and throws Expired, adding no
\* participant and writing nothing else; the sweeper's find selects active
\* opportunities only, and a sweep writes to no opportunity outside its selection.
C12_ExpiryDeterminism ==
    [][/\ \A c \in Clients :
            /\ LoadStep(c) =>
                  \A g \in GroupIds, u \in Users :
                      (/\ JoinLoads(c, g, u)
                       /\ groups[g].status = "active"
                       /\ groups[g].expiryDate < now) =>
                          /\ cl'[c].pc = "jSaveExpired"
                          /\ cl'[c].gid = g
                          /\ UNCHANGED <<groups, product, logs, sent, decided, okJoins, okUsers>>
            /\ (cl[c].pc = "jSaveExpired" /\ cl'[c] # cl[c]) =>
                  /\ cl'[c] = IdleClient
                  /\ ret' = "Expired"
                  /\ groups' = [groups EXCEPT ![cl[c].gid].status = "expired"]
                  /\ ~SweepSelects(groups'[cl[c].gid])
                  /\ UNCHANGED <<product, logs, sent, decided, okJoins, okUsers>>
       /\ (sw.pc = "idle" /\ sw'.pc # "idle") =>
              \A i \in 1..Len(sw'.sel) : groups[sw'.sel[i]].status = "active"
       /\ (sw.pc # "idle" /\ sw' # sw) =>
              \A g \in Ids \ Range(sw.sel) : groups'[g] = groups[g]]_vars

\* C12 witness: a join has thrown Expired, the opportunity is stored as expired
\* with its participant's record untouched, and the sweeper finds nothing.
C12_Witness ==
    /\ ret = "Expired"
    /\ sw.pc = "idle"
    /\ Selected(1) = <<>>
    /\ \E g \in Ids :
        /\ groups[g].status = "expired"
        /\ groups[g].expiryDate < now
        /\ \E i \in 1..Len(logs[groups[g].initiatorId]) :
              /\ logs[groups[g].initiatorId][i].groupId = g
              /\ logs[groups[g].initiatorId][i].status = "active"

\* the participation records of opportunity g all have status st
RecordsHave(lg, g, st) ==
    \A u \in Users : \A i \in 1..Len(lg[u]) : lg[u][i].groupId = g => lg[u][i].status = st

\* every participant of opportunity g has a participation record of it
AllRecorded(lg, g) ==
    \A u \in Range(groups[g].participants) : \E i \in 1..Len(lg[u]) : lg[u][i].groupId = g

\* C13: when a join transitions an expired opportunity, the state is the one the
\* sweeper would leave: its participation records have status expired and the
\* product counter is 0.
C13_LazyExpiryReconciles ==
    [][\A c \in Clients :
          (cl[c].pc = "jSaveExpired" /\ cl'[c].pc = "idle") =>
              /\ groups'[cl[c].gid].status = "expired"
              /\ RecordsHave(logs', cl[c].gid, "expired")
              /\ product'.currentParticipants = 0]_vars

\* the sweeper returns from a run that found something
SweepReturnStep == sw.pc = "sUpdateProduct" /\ sw'.pc = "idle"

\* C14: the sweeper selects exactly the opportunities with status active and
\* expiryDate < now; when it returns each of them is expired, all participants
\* have a record of it and all its records say expired, the product counter is 0,
\* the number returned is the number of opportunities it transitioned; no step
\* of the run changes another opportunity or a record of another opportunity.
C14_SweepExact ==
    [][/\ (sw.pc = "idle" /\ sw'.pc # "idle") =>
              /\ Range(sw'.sel) = {g \in Ids : /\ groups[g].status = "active"
                                               /\ groups[g].expiryDate < now}
              /\ NoDuplicates(sw'.sel)
              /\ UNCHANGED <<groups, product, logs>>
       /\ (sw.pc # "idle" /\ sw' # sw) =>
              /\ groups' = [groups EXCEPT ![SweepCurrent].status = "expired"]
              /\ \A u \in Users :
                    /\ Len(logs'[u]) = Len(logs[u])
                    /\ \A i \in 1..Len(logs[u]) :
                          logs[u][i].groupId # SweepCurrent => logs'[u][i] = logs[u][i]
       /\ SweepReturnStep =>
              /\ \A g \in Range(sw.sel) :
                    /\ groups'[g].status = "expired"
                    /\ AllRecorded(logs', g)
                    /\ RecordsHave(logs', g, "expired")
              /\ product'.currentParticipants = 0
              /\ SweepReturns = Cardinality({g \in Ids : g \in Range(sw.sel)})
              /\ SweepReturns >= 1]_vars

\* C14 witness: one run of the sweeper has expired two opportunities, the first
\* of them with two participants.
C14_Witness ==
    /\ Quiet
    /\ product.currentParticipants = 0
    /\ Len(groups) = 2
    /\ Len(groups[1].participants) = 2
    /\ \A g \in Ids :
        /\ groups[g].status = "expired"
        /\ AllRecorded(logs, g)
        /\ RecordsHave(logs, g, "expired")

\* C15: the sweeper is idempotent.  When a run returns, no opportunity it
\* processed and no opportunity that was already terminal is selected by the next
\* find; if no other opportunity has passed its expiry meanwhile the next find
\* selects nothing, so that run changes nothing and returns 0.
C15_SweepIdempotent ==
    [][SweepReturnStep =>
          /\ \A g \in Ids :
                (g \in Range(sw.sel) \/ groups[g].status # "active")
                    => ~SweepSelects(groups'[g])
          /\ (\A g \in Ids \ Range(sw.sel) :
                ~(groups[g].status = "active" /\ groups[g].expiryDate < now))
                    => (Selected(1) = <<>>)']_vars

\* C15 witness: a sweep has run to its end and a second find selects nothing.
C15_Witness ==
    /\ sw.pc = "idle"
    /\ Selected(1) = <<>>
    /\ \E g \in Ids :
        /\ groups[g].status = "expired"
        /\ AllRecorded(logs, g)
        /\ RecordsHave(logs, g, "expired")
        /\ \E u \in Users : \E i \in 1..Len(logs[u]) : logs[u][i].groupId = g

\* C16: createGroupBuy on a product without an active unexpired opportunity
\* inserts one document: status active, initiator and only participant the
\* caller, threshold and the two percentages those of the product, expiryDate the
\* time of the call plus product.expiryDays; it sets the product counter to 1 and
\* appends one record with status active to the caller's log.
C16_CreateContent ==
    [][\A c \in Clients :
          /\ (FirstFree(c) /\ FindOneActive = 0 /\ \E u \in Users : CreateFind(c, u)) =>
                /\ cl'[c].pc = "cSaveProduct"
                /\ cl'[c].expiry = now + product.expiryDays
                /\ UNCHANGED <<groups, product, logs>>
          /\ (cl[c].pc = "cSaveProduct" /\ cl'[c].pc = "cSaveGroup") =>
                /\ product' = [product EXCEPT !.currentParticipants = 1]
                /\ UNCHANGED <<groups, logs>>
          /\ (cl[c].pc = "cSaveGroup" /\ cl'[c].pc = "cSaveUser") =>
                /\ groups' = Append(groups,
                      [initiatorId |-> cl[c].user, threshold |-> product.threshold,
                       discountPercent |-> product.discountPercent,
                       carbonSavingPercent |-> product.carbonSavingPercent,
                       expiryDate |-> cl[c].expiry, participants |-> <<cl[c].user>>,
                       status |-> "active", completedAt |-> {}])
                /\ cl'[c].gid = Len(groups')
                /\ UNCHANGED <<product, logs>>
          /\ (cl[c].pc = "cSaveUser" /\ cl'[c].pc = "idle") =>
                /\ logs' = [logs EXCEPT ![cl[c].user] =
                              Append(@, [groupId |-> cl[c].gid, status |-> "active",
                               potentialCarbonSaving |->
                                   PotentialSaving(carbonFootprint, product.carbonSavingPercent)])]
                /\ ret' = "created"
                /\ cl[c].gid = Len(groups)
                /\ groups[cl[c].gid].status = "active"
                /\ groups[cl[c].gid].participants = <<cl[c].user>>
                /\ groups[cl[c].gid].threshold = product.threshold
                /\ groups[cl[c].gid].discountPercent = product.discountPercent
                /\ groups[cl[c].gid].carbonSavingPercent = product.carbonSavingPercent
                /\ product.currentParticipants = 1
                /\ UNCHANGED <<groups, product, sent>>]_vars

\* C16 witness: an opportunity created after the product's settings were changed
\* carries the changed settings.
C16_Witness ==
    /\ ret = "created"
    /\ product.currentParticipants = 1
    /\ \E g \in Ids :
        /\ g = Len(groups)
        /\ groups[g].status = "active"
        /\ groups[g].discountPercent = 20
        /\ groups[g].carbonSavingPercent = 30
        /\ Len(logs[groups[g].initiatorId]) >= 1

\* a call of createGroupBuy starts; exists: productId is the _id of a product
CreateCall(c, u, exists) == CreateRejected(c, u, exists) \/ (exists /\ CreateFind(c, u))

\* the call of client c has ended and has written nothing
NoEffect(c) ==
    /\ cl'[c] = IdleClient
    /\ UNCHANGED <<groups, product, logs, sent, decided, okJoins, okUsers>>

\* C17 as claimed: createGroupBuy for a product that does not exist or has group
\* buying disabled throws FeatureDisabled, joinGroupBuy for an id of no
\* opportunity throws NotFound, and neither writes anything.
C17_RejectedCalls ==
    [][\A c \in Clients : (FirstFree(c) /\ calls' = calls + 1) =>
          /\ \A u \in Users, exists \in BOOLEAN :
                (CreateCall(c, u, exists) /\ (~exists \/ ~product.enabled)) =>
                    (ret' = "FeatureDisabled" /\ NoEffect(c))
          /\ \A u \in Users, g \in GroupIds :
                JoinNotFound(c, g, u) => (ret' = "NotFound(opportunity)" /\ NoEffect(c))]_vars

\* C17 as amended: createGroupBuy throws NotFound ('Product not found') for a
\* product that does not exist and FeatureDisabled for one with group buying
\* disabled, joinGroupBuy throws NotFound for an id of no opportunity; none of
\* these calls writes anything.
C17_RejectedCallsByKind ==
    [][\A c \in Clients : (FirstFree(c) /\ calls' = calls + 1) =>
          /\ \A u \in Users :
                /\ CreateCall(c, u, FALSE) => (ret' = "NotFound(product)" /\ NoEffect(c))
                /\ (CreateCall(c, u, TRUE) /\ ~product.enabled) =>
                      (ret' = "FeatureDisabled" /\ NoEffect(c))
          /\ \A u \in Users, g \in GroupIds :
                JoinNotFound(c, g, u) => (ret' = "NotFound(opportunity)" /\ NoEffect(c))]_vars

\* C17 witness: a call was refused on the disabled product while an opportunity
\* of it exists.
C17_Witness ==
    /\ ret = "FeatureDisabled"
    /\ ~product.enabled
    /\ groups # <<>>
    /\ Quiet

\* C18: the product counter is written only after the opportunity write of the
\* same call has succeeded: a call whose opportunity write fails has not changed
\* the counter (nor a participation log).
C18_OpportunityWriteFirst ==
    [][\A c \in Clients :
          (cl[c].pc \in {"cSaveGroup", "jSaveGroup"} /\ cl'[c].pc = "idle") =>
              ~cl[c].wrote]_vars

\* C19: with no call under way, every participation record of a participant of a
\* completed or expired opportunity carries the opportunity's status.
C19_RecordsTrackStatus ==
    Quiet =>
        \A g \in Ids :
            groups[g].status \in {"completed", "expired"} =>
                /\ AllRecorded(logs, g)
                /\ RecordsHave(logs, g, groups[g].status)

\* C20: policy snapshot.  No step changes threshold, discountPercent,
\* carbonSavingPercent or expiryDate of an existing opportunity, and a join
\* decides completion by the opportunity's own threshold.
C20_PolicySnapshot ==
    [][/\ \A g \in Ids :
            /\ groups'[g].threshold = groups[g].threshold
            /\ groups'[g].discountPercent = groups[g].discountPercent
            /\ groups'[g].carbonSavingPercent = groups[g].carbonSavingPercent
            /\ groups'[g].expiryDate = groups[g].expiryDate
       /\ \A c \in Clients :
            (cl[c].pc = "jSaveProduct" /\ cl'[c].pc = "jSaveGroup") =>
                (cl'[c].status = "completed"
                    <=> Len(cl[c].parts) >= groups[cl[c].gid].threshold)]_vars

\* C20 witness: a join has decided about completion where the product's current
\* threshold would have decided otherwise.
C20_Witness ==
    \E c \in Clients :
        /\ cl[c].pc = "jSaveGroup"
        /\ groups[cl[c].gid].threshold # product.threshold
        /\ (cl[c].status = "completed") # (Len(cl[c].parts) >= product.threshold)

\* C21: calculateGroupBuyImpact returns, in hundredths of a kg,
\* shippingSaved = n*2.5 - (2.5 + (n-1)*0.5), packagingSaved = n*0.2,
\* productSaved = f*n*p/100 with a missing or zero f taken as 10, and
\* total = shippingSaved + productSaved without packagingSaved; footprint 10,
\* 5 participants and 15 percent give 7.5, 8.0, 1.0 and 15.5; a second call with
\* the same inputs returns the same.
C21_CarbonEstimate ==
    \A i \in 1..Len(impact.result) :
        LET r == impact.result[i]
            n == impact.n
            f == IF impact.f = 0 THEN 10 ELSE impact.f
        IN /\ r.shippingEmissionsSaved = n * 250 - (250 + (n - 1) * 50)
           /\ r.packagingSaved = n * 20
           /\ r.productCarbonSavings = f * n * impact.p
           /\ r.totalCarbonSaved = r.shippingEmissionsSaved + r.productCarbonSavings
           /\ r.totalMaterialsSaved = r.packagingSaved
           /\ r.participantsCount = n
           /\ r = impact.result[1]
           /\ (impact.f = 10 /\ n = 5 /\ impact.p = 15) =>
                 /\ r.productCarbonSavings = 750
                 /\ r.shippingEmissionsSaved = 800
                 /\ r.packagingSaved = 100
                 /\ r.totalCarbonSaved = 1550

\* C21 witness: the call for footprint 10, 5 participants and 15 percent has
\* returned twice; another witness would be the missing footprint.
C21_Witness ==
    /\ Len(impact.result) = 2
    /\ impact.f = 10
    /\ impact.n = 5
    /\ impact.p = 15
    /\ impact.result[2].totalCarbonSaved = 1550


\* C22: persist-then-emit.  A 'threshold reached' notification for an opportunity
\* is emitted only when the persisted status of that opportunity is completed.
C22_PersistThenEmit ==
    [][\A g \in Ids : \A u \in Users :
          sent'[g][u] > sent[g][u] => groups[g].status = "completed"]_vars


\* C23: per-opportunity sweep atomicity.  With no operation under way and no
\* active opportunity past its expiry (a further run of the sweeper finds
\* nothing to do), no opportunity that only the sweeper can have expired is
\* expired while a record of it is not, or while the counter of the product is
\* non-zero with no active opportunity.  Every call having created its own
\* opportunity, no join has run.
C23_SweepAtomicity ==
    (Quiet /\ Selected(1) = <<>> /\ Len(groups) = calls) =>
        \A g \in Ids :
            groups[g].status = "expired" =>
                /\ \A u \in Users : \A i \in 1..Len(logs[u]) :
                        logs[u][i].groupId = g => logs[u][i].status = "expired"
                /\ (\A h \in Ids : groups[h].status # "active")
                        => product.currentParticipants = 0

\* C24: missing collaborators are reported.  A call that returns success has
\* written the counter of the product and appended the participation record of
\* its user.
C24_MissingReported ==
    [][\A c \in Clients :
          (cl[c].pc \in {"cSaveUser", "jSaveUser"} /\ cl'[c].pc = "idle") =>
              /\ cl[c].wrote
              /\ logs'[cl[c].user] # logs[cl[c].user]]_vars


\* C25: join-time record content.  The record a join appends carries the status
\* of the opportunity after that join and the product saving estimated with the
\* participant count after that join.
C25_JoinRecord ==
    [][\A c \in Clients :
          (cl[c].pc = "jSaveUser" /\ logs'[cl[c].user] # logs[cl[c].user]) =>
              LET g == cl[c].gid
                  r == logs'[cl[c].user][Len(logs'[cl[c].user])]
              IN /\ r.status = groups[g].status
                 /\ r.potentialCarbonSaving =
                        Estimate(carbonFootprint, Len(groups[g].participants),
                                 groups[g].carbonSavingPercent).productCarbonSavings]_vars

\* C25, the part on the status alone
C25_JoinRecordStatus ==
    [][\A c \in Clients :
          (cl[c].pc = "jSaveUser" /\ logs'[cl[c].user] # logs[cl[c].user]) =>
              logs'[cl[c].user][Len(logs'[cl[c].user])].status = groups[cl[c].gid].status]_vars


\* C26: terminal opportunities are frozen.  Once the persisted status of an
\* opportunity is completed, expired or cancelled, no step changes its
\* participants list.
C26_TerminalFrozen ==
    [][\A g \in Ids :
          groups[g].status # "active" =>
              groups'[g].participants = groups[g].participants]_vars


\* C27: eventual termination.  With time advancing and the sweeper invoked
\* repeatedly, every opportunity that is created is from some point on completed
\* for good or from some point on expired for good: none stays active forever.
C27_EventualTermination ==
    \A g \in GroupIds :
        \/ <>[](g \in Ids => groups[g].status = "completed")
        \/ <>[](g \in Ids => groups[g].status = "expired")

\* C27 witness: the sweeper has just saved as expired an opportunity that was
\* still active after its expiry date.
C27_Witness ==
    /\ sw.pc = "sUpdateUsers"
    /\ groups[SweepCurrent].status = "expired"
    /\ groups[SweepCurrent].expiryDate < now
    /\ Len(groups[SweepCurrent].participants) >= 2

====
